---- MODULE Spec2Model ----
(***************************************************************************)
(* Model of lpsolve/ata.py: the encoder that turns an item table and a     *)
(* constraint specification into an lp_solve program.                      *)
(*                                                                         *)
(* Python strings are sequences of one-character strings, so that the      *)
(* rendering (join, str, '+') and the reading back of a written line are   *)
(* different computations.  Python's 0-based positions are kept for the    *)
(* item, form and loop indices; a sequence is read at position index + 1.  *)
(***************************************************************************)
EXTENDS Integers, Sequences, FiniteSets, TLC

(* ------------------------------ bounds -------------------------------- *)
MaxItems == 3
MaxForms == 2

(* ------------------------- strings and lists -------------------------- *)
Digits == <<"0", "1", "2", "3", "4", "5", "6", "7", "8", "9">>

RECURSIVE str(_)
str(n) ==
    IF n < 10 THEN <<Digits[n + 1]>>
    ELSE str(n \div 10) \o <<Digits[(n % 10) + 1]>>

RECURSIVE join(_, _)
join(sep, parts) ==
    IF parts = <<>> THEN <<>>
    ELSE IF Len(parts) = 1 THEN parts[1]
    ELSE parts[1] \o sep \o join(sep, Tail(parts))

RECURSIVE concat(_)
concat(parts) ==
    IF parts = <<>> THEN <<>> ELSE parts[1] \o concat(Tail(parts))

PLUS == <<" ", "+", " ">>
COMMA == <<",", " ">>
END == <<";", "\n">>
MIN_CONSTRAINT == <<">", "=">>
MAX_CONSTRAINT == <<"<", "=">>
EQ_CONSTRAINT == <<"=">>
LT_UNRECOGNIZED == <<"<">>

(* ------------------------------ Constraint ---------------------------- *)
Constraint(ids, comparator, constraint) ==
    [ids |-> ids, comparator |-> comparator, constraint |-> constraint]

Constraint_as_lpsolve_string(self, form) ==
    LET var_names == [k \in 1..Len(self.ids) |->
                          self.ids[k] \o <<"_">> \o str(form)]
    IN  join(PLUS, var_names) \o self.comparator \o str(self.constraint) \o END

(* ------------------------ ConstrainedAttribute ------------------------ *)
(* slip: >= for == in the comparison *)
where_at_least(classification, category) ==
    [k \in 1..Len(classification) |->
        IF classification[k] >= category THEN 1 ELSE 0]

(* np.where(classification == category, items, zeros) over items = ones *)
where_equal(classification, category) ==
    [k \in 1..Len(classification) |->
        IF classification[k] = category THEN 1 ELSE 0]

(* ids[items == 1]: the ids at the positions of the mask, in order *)
RECURSIVE ids_where(_, _)
ids_where(ids, items) ==
    IF ids = <<>> THEN <<>>
    ELSE (IF items[1] = 1 THEN <<ids[1]>> ELSE <<>>)
         \o ids_where(Tail(ids), Tail(items))

(* slip: a category that no item has yields no Constraint *)
ConstrainedAttribute_skips_empty(classifications, comparator, constraints, ids) ==
    LET kept == SelectSeq(constraints,
                    LAMBDA e : \E p \in 1..Len(classifications) :
                                   classifications[p] = e[1])
    IN  [k \in 1..Len(kept) |->
            Constraint(ids_where(ids, [p \in 1..Len(classifications) |->
                                          IF classifications[p] = kept[k][1]
                                          THEN 1 ELSE 0]),
                       comparator, kept[k][2])]

(* constraints: the bound mapping as the sequence of (category, limit)
   pairs in the dictionary's iteration order, keys distinct *)
ConstrainedAttribute(classifications, comparator, constraints, ids) ==
    [k \in 1..Len(constraints) |->
        Constraint(ids_where(ids, where_equal(classifications, constraints[k][1])),
                   comparator, constraints[k][2])]

ConstrainedAttribute_as_lpsolve_string(self, form) ==
    concat([k \in 1..Len(self) |-> Constraint_as_lpsolve_string(self[k], form)])

(* ---------------------- MultiConstrainedAttribute --------------------- *)
(* The truth value Python takes of a numpy array: its only element when it
   has one, False when it has none, ValueError when it has more. *)
array_truth(arr) ==
    IF Len(arr) > 1 THEN [raised |-> TRUE, value |-> FALSE]
    ELSE IF Len(arr) = 1 THEN [raised |-> FALSE, value |-> arr[1]]
    ELSE [raised |-> FALSE, value |-> FALSE]

(* the builtin all() over the generator of the comparisons, in order,
   stopping at the first false value or at the first exception *)
RECURSIVE builtin_all(_)
builtin_all(arrays) ==
    IF arrays = <<>> THEN [raised |-> FALSE, value |-> TRUE]
    ELSE LET t == array_truth(arrays[1])
         IN  IF t.raised THEN t
             ELSE IF ~t.value THEN t
             ELSE builtin_all(Tail(arrays))

(* np.where(<bool>)[0] of a scalar: position 0 for True, nothing for False;
   ids[...] of it *)
ids_at_scalar(ids, b) ==
    IF b THEN (IF Len(ids) >= 1 THEN <<ids[1]>> ELSE <<>>) ELSE <<>>

RECURSIVE multi_constraints(_, _, _, _)
multi_constraints(classifications, comparator, constraints, ids) ==
    IF constraints = <<>> THEN [raised |-> FALSE, constraints |-> <<>>]
    ELSE LET category == constraints[1][1]
             limit == constraints[1][2]
             t == builtin_all([a \in 1..Len(classifications) |->
                      [k \in 1..Len(classifications[a]) |->
                          classifications[a][k] = category[a]]])
             rest == multi_constraints(classifications, comparator,
                                       Tail(constraints), ids)
         IN  IF t.raised THEN [raised |-> TRUE, constraints |-> <<>>]
             ELSE IF rest.raised THEN rest
             ELSE [raised |-> FALSE,
                   constraints |->
                       <<Constraint(ids_at_scalar(ids, t.value), comparator, limit)>>
                       \o rest.constraints]

MultiConstrainedAttribute(classifications, comparator, constraints, ids) ==
    multi_constraints(classifications, comparator, constraints, ids)

(* -------------------------------- Solver ------------------------------ *)
print_constraint(decision_vars, comparator, total) ==
    join(PLUS, decision_vars) \o comparator \o str(total) \o END

var_for(ids, item, form) == ids[item + 1] \o <<"_">> \o str(form)

(* slip: the forms counted from 1 *)
item_occurences_forms_from_one(ids, num_items, num_forms) ==
    [item1 \in 1..num_items |->
        [form1 \in 1..num_forms |-> var_for(ids, item1 - 1, form1)]]

item_occurences(ids, num_items, num_forms) ==
    [item1 \in 1..num_items |->
        [form1 \in 1..num_forms |-> var_for(ids, item1 - 1, form1 - 1)]]

form_items(ids, num_items, num_forms) ==
    [form1 \in 1..num_forms |->
        [item1 \in 1..num_items |-> var_for(ids, item1 - 1, form1 - 1)]]

(* slip: the two loops exchanged, the variables listed form by form *)
var_names_form_by_form(ids, num_items, num_forms) ==
    [k \in 1..(num_items * num_forms) |->
        var_for(ids, (k - 1) % num_items, (k - 1) \div num_items)]

(* slip: the inner loop over range(num_items) in place of the forms *)
var_names_inner_items(ids, num_items, num_forms) ==
    [k \in 1..(num_items * num_items) |->
        var_for(ids, (k - 1) \div num_items, (k - 1) % num_items)]

(* [var_for(item, form) for item in range(num_items)
                        for form in range(num_forms)] *)
var_names(ids, num_items, num_forms) ==
    [k \in 1..(num_items * num_forms) |->
        var_for(ids, (k - 1) \div num_forms, (k - 1) % num_forms)]

(* The item table: the item_id column and the attribute columns. *)
Columns == {"Content", "Level"}
column(data, category) == data.columns[category]

(* The (attribute, rule) pairs in the order the two nested loops of
   Solver.__init__ visit them; an attribute with no rule yields none. *)
RECURSIVE rule_pairs(_)
rule_pairs(constraints) ==
    IF constraints = <<>> THEN <<>>
    ELSE [k \in 1..Len(constraints[1].rules) |->
             [category |-> constraints[1].category,
              constraint |-> constraints[1].rules[k]]]
         \o rule_pairs(Tail(constraints))

(* slip: a rule on a column the table does not have is passed over *)
RECURSIVE build_constraints_skips_unknown(_, _, _)
build_constraints_skips_unknown(data, pairs, ids) ==
    IF pairs = <<>> THEN [raised |-> FALSE, constraints |-> <<>>]
    ELSE LET rest == build_constraints_skips_unknown(data, Tail(pairs), ids)
         IN  IF pairs[1].category \notin Columns THEN rest
             ELSE [raised |-> FALSE,
                   constraints |->
                       <<ConstrainedAttribute(column(data, pairs[1].category),
                                              pairs[1].constraint.comparator,
                                              pairs[1].constraint.values,
                                              ids)>>
                       \o rest.constraints]

(* self.constraints: one ConstrainedAttribute per pair; data[category]
   raises KeyError for a column the table does not have. *)
RECURSIVE build_constraints(_, _, _)
build_constraints(data, pairs, ids) ==
    IF pairs = <<>> THEN [raised |-> FALSE, constraints |-> <<>>]
    ELSE IF pairs[1].category \notin Columns
         THEN [raised |-> TRUE, constraints |-> <<>>]
    ELSE LET rest == build_constraints(data, Tail(pairs), ids)
         IN  IF rest.raised THEN rest
             ELSE [raised |-> FALSE,
                   constraints |->
                       <<ConstrainedAttribute(column(data, pairs[1].category),
                                              pairs[1].constraint.comparator,
                                              pairs[1].constraint.values,
                                              ids)>>
                       \o rest.constraints]

NoSolver ==
    [num_forms |-> 0, items_per_form |-> 0, num_items |-> 0, ids |-> <<>>,
     item_occurences |-> <<>>, form_items |-> <<>>, constraints |-> <<>>,
     var_names |-> <<>>]

Solver_init(data, constraints, num_forms, items_per_form) ==
    LET num_items == Len(data.item_id)
        ids == data.item_id
        built == build_constraints(data, rule_pairs(constraints), ids)
    IN  IF built.raised THEN [raised |-> TRUE, self |-> NoSolver]
        ELSE [raised |-> FALSE,
              self |-> [num_forms |-> num_forms,
                        items_per_form |-> items_per_form,
                        num_items |-> num_items,
                        ids |-> ids,
                        item_occurences |-> item_occurences(ids, num_items, num_forms),
                        form_items |-> form_items(ids, num_items, num_forms),
                        constraints |-> built.constraints,
                        var_names |-> var_names(ids, num_items, num_forms)]]

(* slip: the two loops exchanged, the rules outside and the forms inside *)
category_order_rule_first(num_forms, num_constraints) ==
    [k \in 1..(num_forms * num_constraints) |->
        [form |-> (k - 1) % num_forms,
         constraint |-> (k - 1) \div num_forms]]

(* The order in which the category loop of solve visits (form, constraint):
   for form in range(num_forms): for constraint in self.constraints. *)
category_order(num_forms, num_constraints) ==
    [k \in 1..(num_forms * num_constraints) |->
        [form |-> (k - 1) \div num_constraints,
         constraint |-> (k - 1) % num_constraints]]

bin_line(names) == <<"b", "i", "n", " ">> \o join(COMMA, names) \o END

MIN_LINE == <<"m", "i", "n", ":", " ", ";", "\n">>

(* The default specification of main, in the iteration order of the
   dictionary literals. *)
DefaultConstraints ==
    <<[category |-> "Content",
       rules |-> <<[comparator |-> MIN_CONSTRAINT,
                    values |-> <<<<1, 0>>, <<2, 0>>, <<3, 0>>, <<4, 0>>, <<5, 0>>>>],
                   [comparator |-> MAX_CONSTRAINT,
                    values |-> <<<<1, 10>>, <<2, 10>>, <<3, 15>>, <<4, 10>>, <<5, 10>>>>]>>]>>

(* ------------------------------- inputs ------------------------------- *)
Reverse(seq) == [k \in 1..Len(seq) |-> seq[Len(seq) + 1 - k]]

IdOrders ==
    { << <<"a">>, <<"b">>, <<"c">>, <<"d">>, <<"e">> >>,
      << <<"a", "_", "0">>, <<"a">>, <<"b">>, <<"a", "_", "1">>, <<"c">> >> }

Categories == {1, 2}
ItemsPerFormChoices == {1, 2}

(* item tables with unique ids; every table has the columns of Columns *)
TablesOfSize(n) ==
    { [item_id |-> SubSeq(order, 1, n),
       columns |-> [Content |-> content, Level |-> Reverse(content)]] :
          order \in IdOrders, content \in [1..n -> Categories] }

Tables == UNION { TablesOfSize(n) : n \in 0..MaxItems }

Rule(comparator, values) == [comparator |-> comparator, values |-> values]
Attribute(category, rules) == [category |-> category, rules |-> rules]

(* constraint specifications, each in the iteration order of its mappings *)
ConstraintSpecs ==
    { <<>>,
      <<Attribute("Content", <<Rule(MAX_CONSTRAINT, << <<1, 1>> >>)>>)>>,
      <<Attribute("Content", <<Rule(MIN_CONSTRAINT, <<>>),
                               Rule(EQ_CONSTRAINT, << <<2, 1>> >>)>>)>>,
      <<Attribute("Content", <<Rule(MIN_CONSTRAINT, << <<1, 0>>, <<2, 0>> >>),
                               Rule(MAX_CONSTRAINT, << <<2, 12>>, <<1, 2>> >>)>>)>>,
      <<Attribute("Level", <<Rule(MAX_CONSTRAINT, << <<2, 1>> >>)>>),
        Attribute("Content", <<Rule(EQ_CONSTRAINT, << <<1, 1>> >>)>>)>>,
      <<Attribute("Content", <<Rule(MAX_CONSTRAINT, << <<1, 1>> >>)>>),
        Attribute("Difficulty", <<Rule(MAX_CONSTRAINT, << <<1, 1>> >>)>>)>>,
      <<Attribute("Difficulty", <<>>),
        Attribute("Content", <<Rule(MIN_CONSTRAINT, << <<2, 1>> >>)>>)>>,
      <<Attribute("Content", <<Rule(LT_UNRECOGNIZED, << <<1, 1>> >>)>>)>> }

(* arguments of MultiConstrainedAttribute over k attributes of a table *)
MultiArgs(data) ==
    { [classifications |-> <<data.columns.Content>>,
       constraints |-> << << <<1>>, 1 >>, << <<2>>, 0 >> >>],
      [classifications |-> <<data.columns.Content, data.columns.Level>>,
       constraints |-> << << <<1, 1>>, 1 >>, << <<1, 2>>, 2 >> >>] }

NoMulti == [called |-> FALSE, raised |-> FALSE, constraints |-> <<>>,
            classifications |-> <<>>, comparator |-> <<>>, mapping |-> <<>>]

(* -------------------------------- state ------------------------------- *)
VARIABLES
    data,            \* the item table read by main
    constraints,     \* main's constraints argument (<<>>: none given)
    num_forms,       \* main's num_forms argument
    items_per_form,  \* main's items_per_form argument
    given,           \* the specification main hands to Solver
    self,            \* the Solver object
    pc,              \* position of the run
    err,             \* the exception that ended the run, "" for none
    file_exists,     \* the output file exists on disk
    lp,              \* the content of the output file
    written,         \* per line of lp, the loop position that wrote it
    i, f, k,         \* the loop positions of solve
    multi            \* the last MultiConstrainedAttribute built

vars == <<data, constraints, num_forms, items_per_form, given, self, pc, err,
          file_exists, lp, written, i, f, k, multi>>

Init ==
    /\ data \in Tables
    /\ constraints \in ConstraintSpecs
    /\ num_forms \in 0..MaxForms
    /\ items_per_form \in ItemsPerFormChoices
    /\ given = <<>>
    /\ self = NoSolver
    /\ pc = "start"
    /\ err = ""
    /\ file_exists = FALSE
    /\ lp = <<>>
    /\ written = <<>>
    /\ i = 0 /\ f = 0 /\ k = 0
    /\ multi = NoMulti

inputs == <<data, constraints, num_forms, items_per_form>>

(* main up to the call of solve: the default specification, Solver(...) *)
main ==
    /\ pc = "start"
    /\ LET cs == IF constraints = <<>> THEN DefaultConstraints ELSE constraints
           s == Solver_init(data, cs, num_forms, items_per_form)
       IN  /\ given' = cs
           /\ self' = s.self
           /\ pc' = IF s.raised THEN "error" ELSE "solve"
           /\ err' = IF s.raised THEN "KeyError" ELSE ""
    /\ UNCHANGED <<inputs, file_exists, lp, written, i, f, k, multi>>

(* with open(outfilename, 'w') as lp *)
solve_open ==
    /\ pc = "solve"
    /\ file_exists' = TRUE
    /\ lp' = <<>>
    /\ pc' = "min"
    /\ UNCHANGED <<inputs, given, self, err, written, i, f, k, multi>>

Tag(kind, x, y, z) == [kind |-> kind, x |-> x, y |-> y, z |-> z]

solve_min ==
    /\ pc = "min"
    /\ lp' = lp \o MIN_LINE
    /\ written' = Append(written, Tag("min", 0, 0, 0))
    /\ pc' = "uniq"
    /\ i' = 0
    /\ UNCHANGED <<inputs, given, self, err, file_exists, f, k, multi>>

solve_unique ==
    /\ pc = "uniq"
    /\ IF i < self.num_items
       THEN /\ lp' = lp \o print_constraint(self.item_occurences[i + 1],
                                            MAX_CONSTRAINT, 1)
            /\ written' = Append(written, Tag("uniq", i, 0, 0))
            /\ i' = i + 1
            /\ UNCHANGED <<pc, f>>
       ELSE /\ pc' = "size"
            /\ f' = 0
            /\ UNCHANGED <<lp, written, i>>
    /\ UNCHANGED <<inputs, given, self, err, file_exists, k, multi>>

solve_size ==
    /\ pc = "size"
    /\ IF f < self.num_forms
       THEN /\ lp' = lp \o print_constraint(self.form_items[f + 1],
                                            EQ_CONSTRAINT, self.items_per_form)
            /\ written' = Append(written, Tag("size", f, 0, 0))
            /\ f' = f + 1
            /\ UNCHANGED <<pc, k>>
       ELSE /\ pc' = "cat"
            /\ k' = 0
            /\ UNCHANGED <<lp, written, f>>
    /\ UNCHANGED <<inputs, given, self, err, file_exists, i, multi>>

solve_category ==
    /\ pc = "cat"
    /\ LET order == category_order(self.num_forms, Len(self.constraints))
       IN  IF k < Len(order)
           THEN LET form == order[k + 1].form
                    c == order[k + 1].constraint
                    constraint == self.constraints[c + 1]
                IN  /\ lp' = lp \o ConstrainedAttribute_as_lpsolve_string(
                                       constraint, form)
                    /\ written' = written \o
                           [n \in 1..Len(constraint) |-> Tag("cat", form, c, n - 1)]
                    /\ k' = k + 1
                    /\ UNCHANGED pc
           ELSE /\ pc' = "bin"
                /\ UNCHANGED <<lp, written, k>>
    /\ UNCHANGED <<inputs, given, self, err, file_exists, i, f, multi>>

solve_bin ==
    /\ pc = "bin"
    /\ lp' = lp \o bin_line(self.var_names)
    /\ written' = Append(written, Tag("bin", 0, 0, 0))
    /\ pc' = "done"
    /\ UNCHANGED <<inputs, given, self, err, file_exists, i, f, k, multi>>

(* a lp.write(...) raises: the with statement closes the file and the
   exception leaves solve and main *)
WritePending ==
    \/ pc \in {"min", "bin"}
    \/ pc = "uniq" /\ i < self.num_items
    \/ pc = "size" /\ f < self.num_forms
    \/ pc = "cat" /\ k < self.num_forms * Len(self.constraints)

solve_write_raises ==
    /\ WritePending
    /\ pc' = "failed"
    /\ err' = "IOError"
    /\ UNCHANGED <<inputs, given, self, file_exists, lp, written, i, f, k, multi>>

(* MultiConstrainedAttribute(classifications, comparator, constraints, ids) *)
multi_init ==
    /\ pc = "start"
    /\ \E args \in MultiArgs(data), comparator \in {MIN_CONSTRAINT, MAX_CONSTRAINT} :
          LET m == MultiConstrainedAttribute(args.classifications, comparator,
                                             args.constraints, data.item_id)
          IN  /\ multi' = [called |-> TRUE, raised |-> m.raised,
                           constraints |-> m.constraints,
                           classifications |-> args.classifications,
                           comparator |-> comparator,
                           mapping |-> args.constraints]
              /\ err' = IF m.raised THEN "ValueError" ELSE ""
    /\ pc' = "multi"
    /\ UNCHANGED <<inputs, given, self, file_exists, lp, written, i, f, k>>

Next ==
    \/ main
    \/ solve_open
    \/ solve_min
    \/ solve_unique
    \/ solve_size
    \/ solve_category
    \/ solve_bin
    \/ solve_write_raises
    \/ multi_init

Spec == Init /\ [][Next]_vars

(* ------------------- reading the written file back -------------------- *)
Min(S) == CHOOSE x \in S : \A y \in S : x <= y

(* Python's s.split(sep) *)
RECURSIVE split(_, _)
split(s, sep) ==
    LET n == Len(sep)
        hits == {p \in 1..(Len(s) - n + 1) : SubSeq(s, p, p + n - 1) = sep}
    IN  IF hits = {} THEN <<s>>
        ELSE <<SubSeq(s, 1, Min(hits) - 1)>>
             \o split(SubSeq(s, Min(hits) + n, Len(s)), sep)

(* the newline-terminated lines of a file content, without the newline *)
Lines(content) ==
    LET parts == split(content, <<"\n">>)
    IN  SubSeq(parts, 1, Len(parts) - 1)

ComparatorChars == {"<", ">", "="}

(* a statement line "t1 + t2 + ...<cmp><bound>;": its terms and the rest *)
RelStart(line) ==
    LET hits == {p \in 1..Len(line) : line[p] \in ComparatorChars}
    IN  IF hits = {} THEN Len(line) + 1 ELSE Min(hits)

Terms(line) ==
    LET lhs == SubSeq(line, 1, RelStart(line) - 1)
    IN  IF lhs = <<>> THEN <<>> ELSE split(lhs, PLUS)

Relation(line) == SubSeq(line, RelStart(line), Len(line))

(* the entries of the line "bin v1, v2, ...;" *)
BinEntries(line) ==
    LET body == SubSeq(line, 5, Len(line) - 1)
    IN  IF body = <<>> THEN <<>> ELSE split(body, COMMA)

Occurrences(seq, x) == Cardinality({p \in 1..Len(seq) : seq[p] = x})
Positions(kind) == {p \in 1..Len(written) : written[p].kind = kind}
Variable(id, form) == id \o <<"_">> \o str(form)
NumItems == Len(data.item_id)
Done == pc = "done"

(* the mapping entries of the specification handed to Solver, over all
   attributes and rules *)
RECURSIVE SumLen(_)
SumLen(seqs) == IF seqs = <<>> THEN 0 ELSE Len(seqs[1]) + SumLen(Tail(seqs))

RuleEntries ==
    SumLen([r \in 1..Len(rule_pairs(given)) |->
               rule_pairs(given)[r].constraint.values])

(* ------------------------------- claims ------------------------------- *)

(* C1: for unique ids and num_forms >= 1 the written file has exactly
   num_items uniqueness lines, each ending "<=1;", and exactly num_forms size
   lines, each ending "=<items_per_form>;", and every decision variable id_f
   occurs once in the uniqueness line of its item and in no other, and once in
   the size line of its form and in no other. *)
C1_StructuralLines ==
    (Done /\ num_forms >= 1) =>
        LET L == Lines(lp)
            U == Positions("uniq")
            Z == Positions("size")
        IN  /\ Len(L) = Len(written)
            /\ Cardinality(U) = NumItems
            /\ Cardinality(Z) = num_forms
            /\ \A p \in U : Relation(L[p]) = <<"<", "=", "1", ";">>
            /\ \A p \in Z : Relation(L[p]) = <<"=">> \o str(items_per_form) \o <<";">>
            /\ \A item \in 1..NumItems : \A form \in 0..(num_forms - 1) :
                  LET v == Variable(data.item_id[item], form)
                  IN  /\ \A p \in U :
                            Occurrences(Terms(L[p]), v) =
                                (IF written[p].x = item - 1 THEN 1 ELSE 0)
                      /\ \A p \in Z :
                            Occurrences(Terms(L[p]), v) =
                                (IF written[p].x = form THEN 1 ELSE 0)
                      /\ Cardinality({p \in U : written[p].x = item - 1}) = 1
                      /\ Cardinality({p \in Z : written[p].x = form}) = 1

C1_Witness ==
    /\ Done /\ num_forms = MaxForms /\ NumItems = MaxItems
    /\ data.item_id[1] = <<"a", "_", "0">>

(* C2: every rule processed yields, per key of its bound mapping, exactly one
   Constraint whose items are exactly the items classified as that key; the
   item sets of distinct keys are disjoint, their union is the set of items
   whose classification is a key, and items with an unmapped classification
   are in no Constraint of the rule. *)
IdSet(ids) == {ids[p] : p \in 1..Len(ids)}
ItemsClassified(classification, keys) ==
    {data.item_id[p] : p \in {q \in 1..NumItems : classification[q] \in keys}}

C2_RulePartition ==
    (pc \notin {"start", "multi", "error"}) =>
        /\ Len(self.constraints) = Len(rule_pairs(given))
        /\ \A r \in 1..Len(rule_pairs(given)) :
              LET rule == rule_pairs(given)[r]
                  values == rule.constraint.values
                  classification == data.columns[rule.category]
                  built == self.constraints[r]
                  keys == {values[n][1] : n \in 1..Len(values)}
              IN  /\ Len(built) = Len(values)
                  /\ \A n \in 1..Len(values) :
                        /\ IdSet(built[n].ids) =
                               ItemsClassified(classification, {values[n][1]})
                        /\ Len(built[n].ids) = Cardinality(IdSet(built[n].ids))
                  /\ \A n, m \in 1..Len(values) :
                        n # m => IdSet(built[n].ids) \cap IdSet(built[m].ids) = {}
                  /\ UNION {IdSet(built[n].ids) : n \in 1..Len(values)} =
                         ItemsClassified(classification, keys)
                  /\ \A p \in 1..NumItems :
                        classification[p] \notin keys =>
                            \A n \in 1..Len(values) :
                                data.item_id[p] \notin IdSet(built[n].ids)

C2_Witness ==
    /\ pc = "solve"
    /\ \E r \in 1..Len(rule_pairs(given)) :
          LET rule == rule_pairs(given)[r]
              keys == {rule.constraint.values[n][1] :
                          n \in 1..Len(rule.constraint.values)}
          IN  /\ keys # {}
              /\ \E p, q \in 1..NumItems :
                    /\ data.columns[rule.category][p] \in keys
                    /\ data.columns[rule.category][q] \notin keys

(* C3 (Scenario A): items a, b, c with categories 1, 2, 1, two forms, one
   item per form and the rule {"<=", {1: 1}}. *)
ScenarioA ==
    /\ data.item_id = << <<"a">>, <<"b">>, <<"c">> >>
    /\ data.columns.Content = <<1, 2, 1>>
    /\ num_forms = 2
    /\ items_per_form = 1
    /\ constraints =
           <<Attribute("Content", <<Rule(MAX_CONSTRAINT, << <<1, 1>> >>)>>)>>

ScenarioA_Rest ==
    LET L == Lines(lp)
    IN  /\ Len(L) = 9
        /\ L[1] = <<"m", "i", "n", ":", " ", ";">>
        /\ Cardinality(Positions("uniq")) = 3
        /\ Cardinality(Positions("size")) = 2
        /\ {p \in 1..Len(written) : written[p].kind = "cat"} = {7, 8}
        /\ L[7] = <<"a", "_", "0", " ", "+", " ", "c", "_", "0", "<", "=", "1", ";">>
        /\ L[8] = <<"a", "_", "1", " ", "+", " ", "c", "_", "1", "<", "=", "1", ";">>

(* C3 as stated: the final line is "bin a_0, b_0, c_0, a_1, b_1, c_1;",
   the variables listed form by form. *)
C3_ScenarioA_AsStated ==
    (ScenarioA /\ Done) =>
        /\ ScenarioA_Rest
        /\ Lines(lp)[9] = <<"b", "i", "n", " ", "a", "_", "0", ",", " ", "b", "_", "0", ",", " ", "c", "_", "0", ",", " ", "a", "_", "1", ",", " ", "b", "_", "1", ",", " ", "c", "_", "1", ";">>

(* C3 amended: the category lines are "a_0 + c_0<=1;" then "a_1 + c_1<=1;",
   there are 3 uniqueness lines and 2 size lines, and the final line is
   "bin a_0, a_1, b_0, b_1, c_0, c_1;", the variables listed item by item. *)
C3_ScenarioA ==
    (ScenarioA /\ Done) =>
        /\ ScenarioA_Rest
        /\ Lines(lp)[9] = <<"b", "i", "n", " ", "a", "_", "0", ",", " ", "a", "_", "1", ",", " ", "b", "_", "0", ",", " ", "b", "_", "1", ",", " ", "c", "_", "0", ",", " ", "c", "_", "1", ";">>

C3_Witness == ScenarioA /\ Done

(* C4: the bin line lists every variable id_f, for every item id and every
   form f in [0, num_forms), exactly once and nothing else: it has
   num_items x num_forms entries. *)
C4_BinLine ==
    Done =>
        LET L == Lines(lp)
            line == L[Len(L)]
            entries == BinEntries(line)
            all == {Variable(data.item_id[item], form) :
                       item \in 1..NumItems, form \in 0..(num_forms - 1)}
        IN  /\ SubSeq(line, 1, 4) = <<"b", "i", "n", " ">>
            /\ line[Len(line)] = ";"
            /\ Len(entries) = NumItems * num_forms
            /\ {entries[p] : p \in 1..Len(entries)} = all
            /\ \A v \in all : Occurrences(entries, v) = 1

C4_Witness ==
    /\ Done /\ num_forms = MaxForms /\ NumItems = MaxItems
    /\ data.item_id[2] = <<"a">>

(* C9: the number of category constraint lines written equals the number of
   bound-mapping entries of the specification, summed over all rules of all
   attributes, times num_forms. *)
C9_CategoryLineCount ==
    Done =>
        /\ Len(Lines(lp)) - (1 + NumItems + num_forms + 1) = RuleEntries * num_forms
        /\ Cardinality(Positions("cat")) = RuleEntries * num_forms
        /\ Len(Lines(lp)) = Len(written)

C9_Witness ==
    /\ Done /\ num_forms = MaxForms
    /\ Len(rule_pairs(given)) >= 2
    /\ \E r \in 1..Len(rule_pairs(given)) :
          rule_pairs(given)[r].constraint.values = <<>>
    /\ RuleEntries >= 1

(* C10: solve writes "min: ;", then the uniqueness lines in item order, then
   the size lines in form order, then the category lines, then the bin line. *)
Rank(kind) ==
    CASE kind = "min" -> 0
      [] kind = "uniq" -> 1
      [] kind = "size" -> 2
      [] kind = "cat" -> 3
      [] kind = "bin" -> 4

SectionsInOrder(a, b) ==
    \/ Rank(a.kind) < Rank(b.kind)
    \/ a.kind = b.kind /\ a.kind \in {"uniq", "size"} /\ a.x < b.x
    \/ a.kind = "cat" /\ b.kind = "cat"

(* a category line carries the form, the items, the comparator and the limit
   of the (form, rule, key) that its loop position names *)
CategoryLinesAsTagged ==
    LET L == Lines(lp)
    IN  /\ Len(L) = Len(written)
        /\ \A p \in Positions("cat") :
              LET c == self.constraints[written[p].y + 1][written[p].z + 1]
              IN  /\ Terms(L[p]) =
                         [n \in 1..Len(c.ids) |-> Variable(c.ids[n], written[p].x)]
                  /\ Relation(L[p]) = c.comparator \o str(c.constraint) \o <<";">>

FileShape ==
    /\ \A p, q \in 1..Len(written) :
          p < q => SectionsInOrder(written[p], written[q])
    /\ Done => /\ written[1].kind = "min"
               /\ written[Len(written)].kind = "bin"
               /\ CategoryLinesAsTagged

(* C10 as stated: the category lines are in rule-then-form order, all lines
   of one rule, for every form, before any line of the next rule. *)
C10_WriteOrder_AsStated ==
    /\ FileShape
    /\ \A p, q \in Positions("cat") :
          p < q =>
              LET a == written[p]
                  b == written[q]
              IN  \/ a.y < b.y
                  \/ a.y = b.y /\ a.x < b.x
                  \/ a.y = b.y /\ a.x = b.x /\ a.z < b.z

(* C10 amended: the category lines are in form-then-rule order, all lines of
   one form, for every rule in the order of self.constraints and every key
   in the order of the rule's mapping, before any line of the next form. *)
C10_WriteOrder ==
    /\ FileShape
    /\ \A p, q \in Positions("cat") :
          p < q =>
              LET a == written[p]
                  b == written[q]
              IN  \/ a.x < b.x
                  \/ a.x = b.x /\ a.y < b.y
                  \/ a.x = b.x /\ a.y = b.y /\ a.z < b.z

C10_Witness ==
    /\ Done /\ num_forms = MaxForms /\ NumItems >= 2
    /\ \E p, q \in Positions("cat") :
          written[p].x # written[q].x /\ written[p].y # written[q].y

(* C6 as stated: when the specification names an attribute that is not a
   column of the table, the run ends in an error raised while the Solver is
   constructed and the output file is never created or modified. *)
NamesUnknownAttribute ==
    \E a \in 1..Len(constraints) : constraints[a].category \notin Columns

UnknownAttributeWithRule ==
    \E a \in 1..Len(constraints) :
        /\ constraints[a].category \notin Columns
        /\ constraints[a].rules # <<>>

RejectedBeforeSolve ==
    /\ pc \in {"start", "multi", "error"}
    /\ pc = "error" => err = "KeyError"
    /\ ~file_exists
    /\ lp = <<>>

C6_UnknownAttribute_AsStated == NamesUnknownAttribute => RejectedBeforeSolve

(* C6 amended: when the specification gives at least one rule for an
   attribute that is not a column of the table, the run ends in an error
   raised while the Solver is constructed and the output file is never
   created or modified. *)
C6_UnknownAttribute == UnknownAttributeWithRule => RejectedBeforeSolve

C6_Witness == UnknownAttributeWithRule /\ pc = "error" /\ NumItems >= 1

(* C5: a rule whose comparator is none of ">=", "<=", "=" is rejected when
   the rule is processed, and no line with that comparator is written. *)
Recognized == {MIN_CONSTRAINT, MAX_CONSTRAINT, EQ_CONSTRAINT}

HasUnrecognizedComparator ==
    \E r \in 1..Len(rule_pairs(constraints)) :
        rule_pairs(constraints)[r].constraint.comparator \notin Recognized

C5_ComparatorRejected ==
    HasUnrecognizedComparator =>
        /\ pc \in {"start", "multi", "error"}
        /\ ~file_exists

(* C7: when a write fails during solve, the output file is deleted or marked
   incomplete: solve never ends in failure leaving on disk a strict prefix of
   the program and nothing else. *)
CompleteProgram ==
    MIN_LINE
    \o concat([n \in 1..self.num_items |->
                 print_constraint(self.item_occurences[n], MAX_CONSTRAINT, 1)])
    \o concat([n \in 1..self.num_forms |->
                 print_constraint(self.form_items[n], EQ_CONSTRAINT,
                                  self.items_per_form)])
    \o concat([n \in 1..(self.num_forms * Len(self.constraints)) |->
                 ConstrainedAttribute_as_lpsolve_string(
                     self.constraints[((n - 1) % Len(self.constraints)) + 1],
                     (n - 1) \div Len(self.constraints))])
    \o bin_line(self.var_names)

IsStrictPrefix(a, b) == Len(a) < Len(b) /\ SubSeq(b, 1, Len(a)) = a

C7_NoPartialFile ==
    pc = "failed" =>
        /\ err = "IOError"
        /\ ~(file_exists /\ IsStrictPrefix(lp, CompleteProgram))

(* C8: MultiConstrainedAttribute builds, for every (category tuple, bound)
   entry, exactly one Constraint over exactly the items whose value in every
   attribute equals the corresponding entry of the tuple, with the given
   comparator and that bound. *)
C8_MultiAttribute ==
    multi.called =>
        /\ ~multi.raised
        /\ Len(multi.constraints) = Len(multi.mapping)
        /\ \A n \in 1..Len(multi.mapping) :
              LET category == multi.mapping[n][1]
                  matching == {p \in 1..NumItems :
                                  \A a \in 1..Len(multi.classifications) :
                                      multi.classifications[a][p] = category[a]}
              IN  /\ IdSet(multi.constraints[n].ids) =
                         {data.item_id[p] : p \in matching}
                  /\ Len(multi.constraints[n].ids) = Cardinality(matching)
                  /\ multi.constraints[n].comparator = multi.comparator
                  /\ multi.constraints[n].constraint = multi.mapping[n][2]

====
